---- MODULE Spec2Model ----
(***************************************************************************)
(* HTTQ Rust SDK (sdks/rust/src/lib.rs): the HTTQ-LATTICE key              *)
(* encapsulation primitive (HTTPQLattice) and the client that dispatches   *)
(* a request by the scheme of its URL (Client).                            *)
(*                                                                         *)
(* A byte string (Vec<u8>, &[u8]) is a sequence of blocks.  A block is a   *)
(* record [tag, id, len, arg]: one literal byte ("byte", id = its value),  *)
(* one value drawn from the random generator ("rand", id = which value),   *)
(* or one SHA-256 digest ("sha256", arg = the bytes that were hashed).     *)
(* Concatenation of byte strings is concatenation of sequences.  Two       *)
(* digests are equal exactly when the hashed bytes are equal: SHA-256 is   *)
(* taken to be collision free.                                             *)
(***************************************************************************)
EXTENDS Integers, Sequences, FiniteSets, TLC

VARIABLES
    lattice,    \* a HTTPQLattice instance used directly through its public API
    kp,         \* Option<KeyPair>: the last result of lattice.generate_keypair()
    enc,        \* Option: the last call of lattice.encapsulate: input, draw, result
    dec,        \* Option: the last call of lattice.decapsulate, inputs and result
    client,     \* the Client: its configuration and its own HTTPQLattice
    tasks       \* the requests in flight on the client, one per task

vars == <<lattice, kp, enc, dec, client, tasks>>

(***************************************************************************)
(* Bounds of the model.                                                    *)
(***************************************************************************)
\* The number of distinct values one draw of the random generator can give.
NumRand == 2

(***************************************************************************)
(* Sizes fixed by the program.                                             *)
(***************************************************************************)
SeedLen == 32
MessageLen == 32
DigestLen == 32

(***************************************************************************)
(* Option<T> and Result<T, E>.                                             *)
(***************************************************************************)
None == <<>>
Some(x) == <<x>>
Ok(v) == [ok |-> TRUE, val |-> v]
Err(e) == [ok |-> FALSE, err |-> e]

(***************************************************************************)
(* Byte strings.                                                           *)
(***************************************************************************)
Byte(n) == [tag |-> "byte", id |-> n, len |-> 1, arg |-> <<>>]

RECURSIVE BLen(_)
\* Vec::len / slice len: the number of bytes of a byte string.
BLen(s) == IF s = <<>> THEN 0 ELSE Head(s).len + BLen(Tail(s))

\* (0..len).map(|_| rng.gen()).collect(): len bytes from the thread's generator;
\* i names the value that was drawn.
RngBytes(len, i) == <<[tag |-> "rand", id |-> i, len |-> len, arg |-> <<>>]>>

\* b"public"
LitPublic == <<Byte(112), Byte(117), Byte(98), Byte(108), Byte(105), Byte(99)>>

\* Sha256::new(), Digest::update, Digest::finalize().to_vec()
Sha256New == <<>>
update(hasher, data) == hasher \o data
finalize(hasher) ==
    <<[tag |-> "sha256", id |-> 0, len |-> DigestLen, arg |-> hasher]>>

(***************************************************************************)
(* SecurityLevel and HTTPQLattice.                                         *)
(***************************************************************************)
SecurityLevel == {"HTTQ1024", "HTTQ2048", "HTTQ4096"}

\* `level as u32` / `level as usize`: the discriminant of the enum.
AsU32(level) ==
    CASE level = "HTTQ1024" -> 1024
      [] level = "HTTQ2048" -> 2048
      [] level = "HTTQ4096" -> 4096

HTTPQLatticeNew(level) ==
    LET qk == CASE level = "HTTQ1024" -> <<3329, 2>>
                [] level = "HTTQ2048" -> <<7681, 3>>
                [] level = "HTTQ4096" -> <<12289, 4>>
    IN  [security_level |-> level, n |-> AsU32(level), q |-> qk[1], k |-> qk[2]]

\* SecurityBitsOf with the arm of HTTQ4096 copied from the arm of HTTQ2048.
SecurityBitsOf_CopiedArm(level) ==
    CASE level = "HTTQ1024" -> 128
      [] level = "HTTQ2048" -> 192
      [] level = "HTTQ4096" -> 192

\* The match on self.security_level in generate_keypair.
SecurityBitsOf(level) ==
    CASE level = "HTTQ1024" -> 128
      [] level = "HTTQ2048" -> 192
      [] level = "HTTQ4096" -> 256

\* HTTPQLattice::generate_keypair; seed names the value the generator gives.
generate_keypair(self, seed) ==
    LET seedBytes == RngBytes(SeedLen, seed)
        private_key == finalize(update(Sha256New, seedBytes))
        public_key == finalize(update(update(Sha256New, private_key), LitPublic))
        security_bits == SecurityBitsOf(self.security_level)
    IN  Ok([public_key |-> public_key,
            private_key |-> private_key,
            algorithm |-> "HTTQ-LATTICE-" \o ToString(AsU32(self.security_level)),
            security_bits |-> security_bits])

\* encapsulate with a message that does not come from the generator.
encapsulate_FixedMessage(self, public_key, m) ==
    LET message == RngBytes(MessageLen, 1)
        shared_secret == finalize(update(update(Sha256New, message), public_key))
        ciphertext == finalize(update(update(Sha256New, public_key), message))
    IN  Ok(<<ciphertext, shared_secret>>)

\* HTTPQLattice::encapsulate; m names the value the generator gives.
encapsulate(self, public_key, m) ==
    LET message == RngBytes(MessageLen, m)
        shared_secret == finalize(update(update(Sha256New, message), public_key))
        ciphertext == finalize(update(update(Sha256New, public_key), message))
    IN  Ok(<<ciphertext, shared_secret>>)

\* decapsulate with the dimension factor of the instance mixed into the hash.
decapsulate_Parameterised(self, ciphertext, private_key) ==
    LET shared_secret ==
            finalize(update(update(update(Sha256New, ciphertext), private_key),
                            <<Byte(self.k)>>))
    IN  Ok(shared_secret)

\* HTTPQLattice::decapsulate
decapsulate(self, ciphertext, private_key) ==
    LET shared_secret == finalize(update(update(Sha256New, ciphertext), private_key))
    IN  Ok(shared_secret)

(***************************************************************************)
(* Direct use of the primitive's public API on `lattice`.                  *)
(***************************************************************************)
\* Byte strings a caller can pass besides the ones the primitive returned:
\* empty, one byte, a 32-byte string, a 33-byte string.
ArbitraryBytes ==
    {<<>>, <<Byte(0)>>, RngBytes(DigestLen, 1), RngBytes(DigestLen, 1) \o <<Byte(0)>>}

GenerateKeypair(seed) ==
    /\ kp' = Some(generate_keypair(lattice, seed))
    /\ UNCHANGED <<lattice, enc, dec, client, tasks>>

Encapsulate(public_key, m) ==
    /\ enc' = Some([public_key |-> public_key,
                    draw |-> m,
                    result |-> encapsulate(lattice, public_key, m)])
    /\ UNCHANGED <<lattice, kp, dec, client, tasks>>

Decapsulate(ciphertext, private_key) ==
    /\ dec' = Some([ciphertext |-> ciphertext,
                    private_key |-> private_key,
                    result |-> decapsulate(lattice, ciphertext, private_key)])
    /\ UNCHANGED <<lattice, kp, enc, client, tasks>>

\* The public keys, ciphertexts and private keys at hand.
PublicKeyInputs ==
    ArbitraryBytes \cup {k[1].val.public_key : k \in {x \in {kp} : x # None /\ x[1].ok}}

CiphertextInputs ==
    ArbitraryBytes \cup {e[1].result.val[1] : e \in {x \in {enc} : x # None /\ x[1].result.ok}}

PrivateKeyInputs ==
    {<<>>} \cup {k[1].val.private_key : k \in {x \in {kp} : x # None /\ x[1].ok}}

(***************************************************************************)
(* Client.                                                                 *)
(***************************************************************************)
\* ClientNew with the lowest level for a name it does not know.
ClientNew_DefaultLowest(algorithm, hybrid_mode, fallback_to_https) ==
    LET level == CASE algorithm = "HTTQ-LATTICE-1024" -> "HTTQ1024"
                   [] algorithm = "HTTQ-LATTICE-2048" -> "HTTQ2048"
                   [] algorithm = "HTTQ-LATTICE-4096" -> "HTTQ4096"
                   [] OTHER -> "HTTQ1024"
    IN  [algorithm |-> algorithm,
         hybrid_mode |-> hybrid_mode,
         fallback_to_https |-> fallback_to_https,
         lattice |-> HTTPQLatticeNew(level)]

\* Client::new
ClientNew(algorithm, hybrid_mode, fallback_to_https) ==
    LET level == CASE algorithm = "HTTQ-LATTICE-1024" -> "HTTQ1024"
                   [] algorithm = "HTTQ-LATTICE-4096" -> "HTTQ4096"
                   [] OTHER -> "HTTQ2048"
    IN  [algorithm |-> algorithm,
         hybrid_mode |-> hybrid_mode,
         fallback_to_https |-> fallback_to_https,
         lattice |-> HTTPQLatticeNew(level)]

\* str::starts_with
starts_with(s, prefix) ==
    /\ Len(s) >= Len(prefix)
    /\ SubSeq(s, 1, Len(prefix)) = prefix

\* QuantumResponse with the session's bit count left out of the body.
QuantumResponse_NoBits(session) ==
    [status |-> 200,
     data |-> "{\"message\":\"Quantum-safe communication established!\",\"algorithm\":\""
                \o session.algorithm \o "\"}",
     quantum_safe |-> TRUE]

\* The Response of the quantum-safe branch of Client::request.
QuantumResponse(session) ==
    [status |-> 200,
     data |-> "{\"message\":\"Quantum-safe communication established!\",\"algorithm\":\""
                \o session.algorithm \o "\",\"security_bits\":"
                \o ToString(session.security_bits) \o "}",
     quantum_safe |-> TRUE]

\* FallbackResponse with the flag of the other branch.
FallbackResponse_QuantumSafe ==
    [status |-> 200,
     data |-> "{\"message\":\"Regular HTTPS response\"}",
     quantum_safe |-> TRUE]

\* The Response of the HTTPS branch of Client::request.
FallbackResponse ==
    [status |-> 200,
     data |-> "{\"message\":\"Regular HTTPS response\"}",
     quantum_safe |-> FALSE]

\* The error of the last branch of Client::request.
UnsupportedProtocol(url) == "Unsupported protocol in URL: " \o url

\* SessionOf with the lattice dimension taken for the bit strength.
SessionOf_DimensionAsBits(self, shared_secret, keypair) ==
    [shared_secret |-> shared_secret,
     algorithm |-> self.algorithm,
     security_bits |-> self.lattice.n]

\* SessionOf with the name the key pair carries.
SessionOf_KeypairAlgorithm(self, shared_secret, keypair) ==
    [shared_secret |-> shared_secret,
     algorithm |-> keypair.algorithm,
     security_bits |-> keypair.security_bits]

\* Session { shared_secret, algorithm: self.algorithm.clone(), security_bits }
SessionOf(self, shared_secret, keypair) ==
    [shared_secret |-> shared_secret,
     algorithm |-> self.algorithm,
     security_bits |-> keypair.security_bits]

Tasks == {"t1", "t2"}

AlgorithmNames ==
    {"HTTQ-LATTICE-1024", "HTTQ-LATTICE-2048", "HTTQ-LATTICE-4096", "",
     "httq-lattice-1024"}

Urls == {"httq://a/b", "httq://", "https://a/b", "ftp://a/b", "http://a/b", "httq:/"}

Bodies == {None, Some(<<Byte(1)>>)}

\* A task with no request in flight.
IdleTask ==
    [pc |-> "Idle", method |-> "", url |-> "", data |-> None, hs |-> "none",
     keypair |-> None, server_keypair |-> None, session |-> None,
     result |-> None, kem_log |-> <<>>]

\* Entry of Client::request(method, url, data).
request(t, method, url, data) ==
    /\ tasks[t].pc = "Idle"
    /\ tasks' = [tasks EXCEPT ![t] =
                    [IdleTask EXCEPT !.pc = "Start", !.method = method,
                                     !.url = url, !.data = data]]
    /\ UNCHANGED <<lattice, kp, enc, dec, client>>

\* Client::get
get(t, url) == request(t, "GET", url, None)

\* Client::post
post(t, url, data) == request(t, "POST", url, data)

\* Dispatch with the second branch not asking for self.fallback_to_https.
Dispatch_FallbackUnchecked(t) ==
    /\ tasks[t].pc = "Start"
    /\ tasks' = [tasks EXCEPT ![t] =
                    IF starts_with(@.url, "httq://")
                    THEN [@ EXCEPT !.pc = "QuantumPath", !.hs = "start"]
                    ELSE IF starts_with(@.url, "https://")
                         THEN [@ EXCEPT !.pc = "FallbackPath"]
                         ELSE [@ EXCEPT !.pc = "Rejected"]]
    /\ UNCHANGED <<lattice, kp, enc, dec, client>>

\* Dispatch with the quantum-safe branch taken only when no fallback is allowed.
Dispatch_QuantumUnlessFallback(t) ==
    /\ tasks[t].pc = "Start"
    /\ tasks' = [tasks EXCEPT ![t] =
                    IF starts_with(@.url, "httq://") /\ ~client.fallback_to_https
                    THEN [@ EXCEPT !.pc = "QuantumPath", !.hs = "start"]
                    ELSE IF starts_with(@.url, "https://") /\ client.fallback_to_https
                         THEN [@ EXCEPT !.pc = "FallbackPath"]
                         ELSE [@ EXCEPT !.pc = "Rejected"]]
    /\ UNCHANGED <<lattice, kp, enc, dec, client>>

\* Dispatch with hybrid_mode also opening the HTTPS branch.
Dispatch_HybridGate(t) ==
    /\ tasks[t].pc = "Start"
    /\ tasks' = [tasks EXCEPT ![t] =
                    IF starts_with(@.url, "httq://")
                    THEN [@ EXCEPT !.pc = "QuantumPath", !.hs = "start"]
                    ELSE IF /\ starts_with(@.url, "https://")
                            /\ (client.fallback_to_https \/ client.hybrid_mode)
                         THEN [@ EXCEPT !.pc = "FallbackPath"]
                         ELSE [@ EXCEPT !.pc = "Rejected"]]
    /\ UNCHANGED <<lattice, kp, enc, dec, client>>

\* Dispatch with the HTTPS branch open to GET requests only.
Dispatch_GetOnlyFallback(t) ==
    /\ tasks[t].pc = "Start"
    /\ tasks' = [tasks EXCEPT ![t] =
                    IF starts_with(@.url, "httq://")
                    THEN [@ EXCEPT !.pc = "QuantumPath", !.hs = "start"]
                    ELSE IF /\ starts_with(@.url, "https://")
                            /\ client.fallback_to_https
                            /\ @.method = "GET"
                         THEN [@ EXCEPT !.pc = "FallbackPath"]
                         ELSE [@ EXCEPT !.pc = "Rejected"]]
    /\ UNCHANGED <<lattice, kp, enc, dec, client>>

\* The if / else if / else of Client::request.
Dispatch(t) ==
    /\ tasks[t].pc = "Start"
    /\ tasks' = [tasks EXCEPT ![t] =
                    IF starts_with(@.url, "httq://")
                    THEN [@ EXCEPT !.pc = "QuantumPath", !.hs = "start"]
                    ELSE IF starts_with(@.url, "https://") /\ client.fallback_to_https
                         THEN [@ EXCEPT !.pc = "FallbackPath"]
                         ELSE [@ EXCEPT !.pc = "Rejected"]]
    /\ UNCHANGED <<lattice, kp, enc, dec, client>>

\* `?` on a failed Result inside perform_handshake, then `?` in request: the
\* request returns the error, nothing else of the handshake runs.
HandshakeError(task, e) ==
    [task EXCEPT !.pc = "Done", !.hs = "failed", !.keypair = None,
                 !.server_keypair = None, !.result = Some(Err(e))]

\* let keypair = self.lattice.generate_keypair()?;
HandshakeKeypair(t, seed) ==
    /\ tasks[t].pc = "QuantumPath"
    /\ tasks[t].hs = "start"
    /\ LET r == generate_keypair(client.lattice, seed)
           logged == [tasks[t] EXCEPT
                        !.kem_log = Append(@, [op |-> "generate_keypair", arg |-> <<>>])]
       IN  tasks' = [tasks EXCEPT ![t] =
                        IF r.ok
                        THEN [logged EXCEPT !.hs = "keypair", !.keypair = Some(r.val)]
                        ELSE HandshakeError(logged, r.err)]
    /\ UNCHANGED <<lattice, kp, enc, dec, client>>

\* let server_keypair = self.lattice.generate_keypair()?;
HandshakeServerKeypair(t, seed) ==
    /\ tasks[t].pc = "QuantumPath"
    /\ tasks[t].hs = "keypair"
    /\ LET r == generate_keypair(client.lattice, seed)
           logged == [tasks[t] EXCEPT
                        !.kem_log = Append(@, [op |-> "generate_keypair", arg |-> <<>>])]
       IN  tasks' = [tasks EXCEPT ![t] =
                        IF r.ok
                        THEN [logged EXCEPT !.hs = "server_keypair",
                                            !.server_keypair = Some(r.val)]
                        ELSE HandshakeError(logged, r.err)]
    /\ UNCHANGED <<lattice, kp, enc, dec, client>>

\* HandshakeEncapsulate with the local public key in place of the peer's.
HandshakeEncapsulate_OwnKey(t, m) ==
    /\ tasks[t].pc = "QuantumPath"
    /\ tasks[t].hs = "server_keypair"
    /\ LET public_key == tasks[t].keypair[1].public_key
           r == encapsulate(client.lattice, public_key, m)
           logged == [tasks[t] EXCEPT
                        !.kem_log = Append(@, [op |-> "encapsulate", arg |-> public_key])]
       IN  tasks' = [tasks EXCEPT ![t] =
                        IF r.ok
                        THEN [logged EXCEPT
                                !.hs = "complete",
                                !.session = Some(SessionOf(client, r.val[2],
                                                           tasks[t].keypair[1])),
                                !.keypair = None,
                                !.server_keypair = None]
                        ELSE HandshakeError(logged, r.err)]
    /\ UNCHANGED <<lattice, kp, enc, dec, client>>

\* let (_ciphertext, shared_secret) = self.lattice.encapsulate(...)?; Ok(Session {..})
\* The key pairs are locals of perform_handshake and end with it.
HandshakeEncapsulate(t, m) ==
    /\ tasks[t].pc = "QuantumPath"
    /\ tasks[t].hs = "server_keypair"
    /\ LET public_key == tasks[t].server_keypair[1].public_key
           r == encapsulate(client.lattice, public_key, m)
           logged == [tasks[t] EXCEPT
                        !.kem_log = Append(@, [op |-> "encapsulate", arg |-> public_key])]
       IN  tasks' = [tasks EXCEPT ![t] =
                        IF r.ok
                        THEN [logged EXCEPT
                                !.hs = "complete",
                                !.session = Some(SessionOf(client, r.val[2],
                                                           tasks[t].keypair[1])),
                                !.keypair = None,
                                !.server_keypair = None]
                        ELSE HandshakeError(logged, r.err)]
    /\ UNCHANGED <<lattice, kp, enc, dec, client>>

\* QuantumRespond without its return: control goes on into the HTTPS branch.
QuantumRespond_FallsThrough(t) ==
    /\ tasks[t].pc = "QuantumPath"
    /\ tasks[t].hs = "complete"
    /\ tasks' = [tasks EXCEPT ![t] =
                    [@ EXCEPT !.pc = "FallbackPath",
                              !.result = Some(Ok(QuantumResponse(tasks[t].session[1])))]]
    /\ UNCHANGED <<lattice, kp, enc, dec, client>>

\* Ok(Response { status: 200, data: format!(..), quantum_safe: true })
QuantumRespond(t) ==
    /\ tasks[t].pc = "QuantumPath"
    /\ tasks[t].hs = "complete"
    /\ tasks' = [tasks EXCEPT ![t] =
                    [@ EXCEPT !.pc = "Done",
                              !.result = Some(Ok(QuantumResponse(tasks[t].session[1])))]]
    /\ UNCHANGED <<lattice, kp, enc, dec, client>>

\* Ok(Response { status: 200, data: .., quantum_safe: false })
FallbackRespond(t) ==
    /\ tasks[t].pc = "FallbackPath"
    /\ tasks' = [tasks EXCEPT ![t] =
                    [@ EXCEPT !.pc = "Done", !.result = Some(Ok(FallbackResponse))]]
    /\ UNCHANGED <<lattice, kp, enc, dec, client>>

\* Err(format!("Unsupported protocol in URL: {}", url).into())
Reject(t) ==
    /\ tasks[t].pc = "Rejected"
    /\ tasks' = [tasks EXCEPT ![t] =
                    [@ EXCEPT !.pc = "Done",
                              !.result = Some(Err(UnsupportedProtocol(tasks[t].url)))]]
    /\ UNCHANGED <<lattice, kp, enc, dec, client>>

\* Return with the session of the finished request kept for the next one.
Return_KeepsSession(t) ==
    /\ tasks[t].pc = "Done"
    /\ tasks' = [tasks EXCEPT ![t] = [IdleTask EXCEPT !.session = tasks[t].session]]
    /\ UNCHANGED <<lattice, kp, enc, dec, client>>

\* The future of the request completes: the caller has the result, and the
\* session and every other local of the request are dropped.
Return(t) ==
    /\ tasks[t].pc = "Done"
    /\ tasks' = [tasks EXCEPT ![t] = IdleTask]
    /\ UNCHANGED <<lattice, kp, enc, dec, client>>

(***************************************************************************)
(* Specifications.                                                         *)
(***************************************************************************)
\* The client with requests in flight on it.
Init ==
    /\ client \in {ClientNew(a, h, f) : a \in AlgorithmNames, h \in BOOLEAN, f \in BOOLEAN}
    /\ tasks = [t \in Tasks |-> IdleTask]
    /\ lattice = client.lattice
    /\ kp = None
    /\ enc = None
    /\ dec = None

Next ==
    \/ \E t \in Tasks, url \in Urls : get(t, url)
    \/ \E t \in Tasks, url \in Urls, data \in Bodies : post(t, url, data)
    \/ \E t \in Tasks : Dispatch(t)
    \/ \E t \in Tasks, seed \in 1..NumRand : HandshakeKeypair(t, seed)
    \/ \E t \in Tasks, seed \in 1..NumRand : HandshakeServerKeypair(t, seed)
    \/ \E t \in Tasks, m \in 1..NumRand : HandshakeEncapsulate(t, m)
    \/ \E t \in Tasks : QuantumRespond(t)
    \/ \E t \in Tasks : FallbackRespond(t)
    \/ \E t \in Tasks : Reject(t)
    \/ \E t \in Tasks : Return(t)

Spec == Init /\ [][Next]_vars

\* The steps of the request of task t after its entry, up to its result.
Progress(t) ==
    \/ Dispatch(t)
    \/ \E seed \in 1..NumRand : HandshakeKeypair(t, seed)
    \/ \E seed \in 1..NumRand : HandshakeServerKeypair(t, seed)
    \/ \E m \in 1..NumRand : HandshakeEncapsulate(t, m)
    \/ QuantumRespond(t)
    \/ FallbackRespond(t)
    \/ Reject(t)

\* The requests of Next, with the POST requests made by one task only.
FairNext ==
    \/ \E t \in Tasks, url \in Urls : get(t, url)
    \/ \E url \in Urls, data \in Bodies : post("t1", url, data)
    \/ \E t \in Tasks : Progress(t)
    \/ \E t \in Tasks : Return(t)

\* A request that was awaited is polled until it completes: its body waits
\* for nothing outside itself.
FairSpec == Init /\ [][FairNext]_vars /\ \A t \in Tasks : WF_vars(Progress(t))

\* A primitive of any security level, used through its public API.
KemInit ==
    /\ lattice \in {HTTPQLatticeNew(level) : level \in SecurityLevel}
    /\ kp = None
    /\ enc = None
    /\ dec = None
    /\ client = ClientNew("HTTQ-LATTICE-2048", TRUE, TRUE)
    /\ tasks = [t \in Tasks |-> IdleTask]

KemNext ==
    \/ \E seed \in 1..NumRand : GenerateKeypair(seed)
    \/ \E public_key \in PublicKeyInputs, m \in 1..NumRand : Encapsulate(public_key, m)
    \/ \E ciphertext \in CiphertextInputs, private_key \in PrivateKeyInputs :
          Decapsulate(ciphertext, private_key)

KemSpec == KemInit /\ [][KemNext]_vars

(***************************************************************************)
(* Properties.                                                             *)
(***************************************************************************)
\* s begins with prefix / sub occurs in s, for strings.
HasPrefix(s, prefix) ==
    \E n \in 0..Len(s) : n = Len(prefix) /\ \A i \in 1..n : SubSeq(s, i, i) = SubSeq(prefix, i, i)

Contains(s, sub) ==
    \E i \in 1..(Len(s) - Len(sub) + 1) : SubSeq(s, i, i + Len(sub) - 1) = sub

\* The nominal strength of a security level.
NominalBits(level) ==
    IF level = "HTTQ1024" THEN 128 ELSE IF level = "HTTQ2048" THEN 192 ELSE 256

\* A task whose request has finished with an Ok(Response) / with an Err.
ReturnedResponse(t) ==
    /\ tasks[t].pc = "Done"
    /\ tasks[t].result # None
    /\ tasks[t].result[1].ok

ReturnedError(t) ==
    /\ tasks[t].pc = "Done"
    /\ tasks[t].result # None
    /\ ~tasks[t].result[1].ok

\* The last three direct API calls were a key generation, an encapsulation
\* against its public key and a decapsulation of the resulting ciphertext
\* with its private key.
RoundTripDone ==
    /\ kp # None /\ enc # None /\ dec # None
    /\ kp[1].ok /\ enc[1].result.ok
    /\ enc[1].public_key = kp[1].val.public_key
    /\ dec[1].ciphertext = enc[1].result.val[1]
    /\ dec[1].private_key = kp[1].val.private_key

\* C1: after generate_keypair gave (pk, sk) and encapsulate(pk) gave
\* (ciphertext, secret), decapsulate(ciphertext, sk) returns exactly secret.
C1_RoundTripAgreement ==
    RoundTripDone => /\ dec[1].result.ok
                     /\ dec[1].result.val = enc[1].result.val[2]

\* C2: a request to an "httq://" target whose handshake succeeded returns a
\* Response with status 200, quantum_safe = true and a body that carries the
\* session's algorithm name and its security-bit count.
C2_QuantumPath ==
    \A t \in Tasks :
        (/\ tasks[t].pc = "Done"
         /\ HasPrefix(tasks[t].url, "httq://")
         /\ tasks[t].session # None)
        => /\ ReturnedResponse(t)
           /\ tasks[t].result[1].val.status = 200
           /\ tasks[t].result[1].val.quantum_safe = TRUE
           /\ Contains(tasks[t].result[1].val.data,
                       "\"algorithm\":\"" \o tasks[t].session[1].algorithm \o "\"")
           /\ Contains(tasks[t].result[1].val.data,
                       "\"security_bits\":"
                         \o ToString(tasks[t].session[1].security_bits) \o "}")

C2_Witness ==
    \E t \in Tasks :
        /\ ReturnedResponse(t)
        /\ HasPrefix(tasks[t].url, "httq://")
        /\ tasks[t].session # None
        /\ client.algorithm = ""
        /\ ~client.fallback_to_https

\* C3: a request to an "https://" target on a client whose fallback flag is
\* true returns a Response with status 200 and quantum_safe = false.
C3_FallbackPath ==
    \A t \in Tasks :
        (/\ tasks[t].pc = "Done"
         /\ HasPrefix(tasks[t].url, "https://")
         /\ client.fallback_to_https)
        => /\ ReturnedResponse(t)
           /\ tasks[t].result[1].val.status = 200
           /\ tasks[t].result[1].val.quantum_safe = FALSE

C3_Witness ==
    \E t \in Tasks :
        /\ tasks[t].pc = "Done"
        /\ HasPrefix(tasks[t].url, "https://")
        /\ client.fallback_to_https
        /\ client.hybrid_mode
        /\ client.algorithm = "HTTQ-LATTICE-4096"

\* The targets that are to be rejected.
Unsupported(url) ==
    /\ ~HasPrefix(url, "httq://")
    /\ \/ ~HasPrefix(url, "https://")
       \/ ~client.fallback_to_https

\* C4: a request whose target does not begin with "httq://", and either does
\* not begin with "https://" or finds the fallback flag false, returns no
\* Response but the unsupported-scheme error, which carries the target.
C4_Rejection ==
    \A t \in Tasks :
        (tasks[t].pc = "Done" /\ Unsupported(tasks[t].url))
        => /\ ReturnedError(t)
           /\ HasPrefix(tasks[t].result[1].err, "Unsupported protocol")
           /\ Contains(tasks[t].result[1].err, tasks[t].url)

C4_Witness ==
    /\ \E t \in Tasks :
          /\ ReturnedError(t)
          /\ tasks[t].url = "https://a/b"
          /\ ~client.fallback_to_https
    /\ \E t \in Tasks :
          /\ ReturnedError(t)
          /\ tasks[t].url = "ftp://a/b"

\* C5: every key pair generate_keypair returns has a public and a private key
\* of 32 bytes each and the security_bits of the primitive's level:
\* 128 for 1024, 192 for 2048, 256 for 4096.
C5_KeypairShape ==
    kp # None
    => /\ kp[1].ok
       /\ BLen(kp[1].val.public_key) = 32
       /\ BLen(kp[1].val.private_key) = 32
       /\ lattice.security_level = "HTTQ1024" => kp[1].val.security_bits = 128
       /\ lattice.security_level = "HTTQ2048" => kp[1].val.security_bits = 192
       /\ lattice.security_level = "HTTQ4096" => kp[1].val.security_bits = 256
       /\ lattice.security_level \in {"HTTQ1024", "HTTQ2048", "HTTQ4096"}

C5_Witness ==
    /\ kp # None
    /\ kp[1].ok
    /\ lattice.security_level = "HTTQ4096"

\* C6: the security_bits of every key pair a handshake holds and of every
\* session it produced is the nominal strength of the level of the client's
\* primitive.
C6_SecurityBitsMatchLevel ==
    \A t \in Tasks :
        /\ tasks[t].keypair # None
           => tasks[t].keypair[1].security_bits
                = NominalBits(client.lattice.security_level)
        /\ tasks[t].server_keypair # None
           => tasks[t].server_keypair[1].security_bits
                = NominalBits(client.lattice.security_level)
        /\ tasks[t].session # None
           => tasks[t].session[1].security_bits
                = NominalBits(client.lattice.security_level)

C6_Witness ==
    \E t \in Tasks, u \in Tasks :
        /\ tasks[t].session # None
        /\ tasks[u].keypair # None
        /\ tasks[u].server_keypair # None
        /\ client.lattice.security_level = "HTTQ1024"

\* C8: encapsulate returns the InvalidPublicKey error, and no ciphertext or
\* secret, for a public key whose length is not 32.
C8_InvalidPublicKey ==
    (enc # None /\ BLen(enc[1].public_key) # 32)
    => /\ ~enc[1].result.ok
       /\ enc[1].result.err = "InvalidPublicKey"

\* C9: decapsulate returns the InvalidCiphertext error, and no secret, for a
\* ciphertext whose length is not 32.
C9_InvalidCiphertext ==
    (dec # None /\ BLen(dec[1].ciphertext) # 32)
    => /\ ~dec[1].result.ok
       /\ dec[1].result.err = "InvalidCiphertext"

\* The names of the operations in a log of KEM calls.
RECURSIVE Ops(_)
Ops(log) == IF log = <<>> THEN <<>> ELSE <<Head(log).op>> \o Ops(Tail(log))

NegotiationOps == <<"generate_keypair", "generate_keypair", "encapsulate">>

\* In every state the KEM calls of a request are a prefix of: key generation,
\* key generation, encapsulation; a negotiation that succeeded made all three.
C10_Calls ==
    \A t \in Tasks :
        /\ Len(tasks[t].kem_log) <= 3
        /\ Ops(tasks[t].kem_log) = SubSeq(NegotiationOps, 1, Len(tasks[t].kem_log))
        /\ tasks[t].session # None => Len(tasks[t].kem_log) = 3

\* The first key generation gives the local key pair, the second the peer's,
\* and the encapsulation is made against the peer's public key.
C10_Step ==
    \A t \in Tasks :
        LET old == tasks[t]
            new == tasks'[t]
            n == Len(old.kem_log)
        IN  Len(new.kem_log) > n
            => /\ Len(new.kem_log) = n + 1
               /\ n = 0 => /\ old.keypair = None /\ old.server_keypair = None
                           /\ new.keypair # None /\ new.server_keypair = None
               /\ n = 1 => /\ old.server_keypair = None
                           /\ new.keypair = old.keypair
                           /\ new.server_keypair # None
               /\ n = 2 => /\ new.kem_log[3].arg = old.server_keypair[1].public_key
                           /\ new.session # None

\* C10: a successful negotiation makes exactly two key generations, the local
\* one first and the peer's second, then exactly one encapsulation, against the
\* peer's public key; it repeats no KEM call and never calls decapsulate.
C10_NegotiationCalls == [](C10_Calls) /\ [][C10_Step]_vars

C10_Witness ==
    \E t \in Tasks :
        /\ tasks[t].session # None
        /\ Ops(tasks[t].kem_log) = NegotiationOps
        /\ tasks[t].pc = "Done"

\* C11: the client's primitive has the level of the table: 1024 for
\* "HTTQ-LATTICE-1024", 2048 for "HTTQ-LATTICE-2048", 4096 for
\* "HTTQ-LATTICE-4096" and 2048 for every other name, the empty one and the
\* ones in another case included; the client always exists, with the name and
\* the flags it was given and the parameters of that level.
C11_AlgorithmTable ==
    /\ client.algorithm = "HTTQ-LATTICE-1024" => client.lattice.n = 1024
    /\ client.algorithm = "HTTQ-LATTICE-2048" => client.lattice.n = 2048
    /\ client.algorithm = "HTTQ-LATTICE-4096" => client.lattice.n = 4096
    /\ client.algorithm \notin {"HTTQ-LATTICE-1024", "HTTQ-LATTICE-2048", "HTTQ-LATTICE-4096"}
       => client.lattice.n = 2048
    /\ client.lattice.security_level = "HTTQ" \o ToString(client.lattice.n)
    /\ client.algorithm \in AlgorithmNames
    /\ client.hybrid_mode \in BOOLEAN
    /\ client.fallback_to_https \in BOOLEAN

C11_Witness ==
    /\ client.algorithm = "httq-lattice-1024"
    /\ client.lattice.security_level = "HTTQ2048"
    /\ \E t \in Tasks : tasks[t].pc = "Done"

\* The moves of the dispatcher's state machine.
DispatcherMoves ==
    {<<"Idle", "Start">>,
     <<"Start", "QuantumPath">>, <<"Start", "FallbackPath">>, <<"Start", "Rejected">>,
     <<"QuantumPath", "Done">>, <<"FallbackPath", "Done">>, <<"Rejected", "Done">>,
     <<"Done", "Idle">>}

C12_Step ==
    \A t \in Tasks :
        tasks'[t].pc # tasks[t].pc => <<tasks[t].pc, tasks'[t].pc>> \in DispatcherMoves

\* A request has a result exactly when it is Done, and then one result.
C12_Outcome ==
    \A t \in Tasks :
        /\ tasks[t].pc \in {"Idle", "Start", "QuantumPath", "FallbackPath", "Rejected", "Done"}
        /\ tasks[t].pc = "Done" <=> tasks[t].result # None
        /\ Len(tasks[t].result) <= 1

\* C12: every request goes Start, then exactly one of QuantumPath,
\* FallbackPath or Rejected, then Done, where it has one outcome, a Response
\* or an error; no path leads into another, and every request that started
\* reaches Done.
C12_StateMachine ==
    /\ [][C12_Step]_vars
    /\ [](C12_Outcome)
    /\ \A t \in Tasks : (tasks[t].pc = "Start") ~> (tasks[t].pc = "Done")

C12_Witness ==
    \E t \in Tasks, u \in Tasks :
        /\ ReturnedResponse(t)
        /\ tasks[t].result[1].val.quantum_safe
        /\ ReturnedError(u)

\* The request of task t has made no KEM call and holds no key pair or session.
NoNegotiation(t) ==
    /\ tasks[t].kem_log = <<>>
    /\ tasks[t].keypair = None
    /\ tasks[t].server_keypair = None
    /\ tasks[t].session = None

\* C13: a request on the FallbackPath or Rejected, or one not yet dispatched,
\* has generated no key, encapsulated nothing and holds no session; only a
\* target that begins with "httq://" is on the QuantumPath, and such a target
\* is always negotiated for, whatever the fallback flag.
C13_NegotiationOnlyOnQuantumPath ==
    \A t \in Tasks :
        /\ tasks[t].pc \in {"Idle", "Start", "FallbackPath", "Rejected"} => NoNegotiation(t)
        /\ (tasks[t].pc = "Done" /\ ~HasPrefix(tasks[t].url, "httq://")) => NoNegotiation(t)
        /\ tasks[t].pc = "QuantumPath" => HasPrefix(tasks[t].url, "httq://")
        /\ (tasks[t].pc \notin {"Idle", "Start"} /\ HasPrefix(tasks[t].url, "httq://"))
           => /\ tasks[t].pc \in {"QuantumPath", "Done"}
              /\ tasks[t].pc = "Done"
                 => /\ Ops(tasks[t].kem_log) = NegotiationOps
                    /\ tasks[t].session # None

C13_Witness ==
    \E t \in Tasks, u \in Tasks :
        /\ client.fallback_to_https
        /\ tasks[t].pc = "Done" /\ tasks[t].url = "httq://a/b"
        /\ tasks[t].session # None
        /\ tasks[u].pc = "Done" /\ tasks[u].url = "https://a/b"
        /\ NoNegotiation(u)

\* The result of the last decapsulate call is the one any instance returns
\* for the same ciphertext and private key, now as when the call was made.
C14_SameOnEveryInstance ==
    dec # None
    => \A level \in SecurityLevel :
          decapsulate(HTTPQLatticeNew(level), dec[1].ciphertext, dec[1].private_key)
            = dec[1].result

\* A decapsulate call changes nothing but what it returns, and a call with the
\* inputs of the call before it returns what that call returned.
C14_Step ==
    /\ dec' # dec => UNCHANGED <<lattice, kp, enc, client, tasks>>
    /\ (/\ dec # None /\ dec' # None
        /\ dec'[1].ciphertext = dec[1].ciphertext
        /\ dec'[1].private_key = dec[1].private_key)
       => dec'[1].result = dec[1].result

\* C14: decapsulate is a function of the ciphertext and the private key alone:
\* the same two inputs give the same secret on every instance and after any
\* other operations, and the call changes no state.
C14_DecapsulatePure == [](C14_SameOnEveryInstance) /\ [][C14_Step]_vars

C14_Witness ==
    /\ dec # None /\ kp # None /\ enc # None
    /\ dec[1].result.ok
    /\ dec[1].private_key # <<>>
    /\ dec[1].private_key # kp[1].val.private_key
    /\ dec[1].ciphertext # enc[1].result.val[1]
    /\ BLen(dec[1].ciphertext) = 32
    /\ lattice.security_level = "HTTQ4096"

\* C15: the bytes encapsulate hashes for the ciphertext differ from the bytes
\* it hashes for the shared secret, for every public key and message, so the
\* ciphertext a call returns is never the secret it returns.
C15_DomainSeparation ==
    (enc # None /\ enc[1].result.ok)
    => /\ enc[1].result.val[1][1].arg # enc[1].result.val[2][1].arg
       /\ enc[1].result.val[1] # enc[1].result.val[2]

\* Two encapsulate calls in a row on one public key with different draws.
C16_Step ==
    (/\ enc # None /\ enc' # None
     /\ enc'[1].public_key = enc[1].public_key)
    => /\ enc'[1].draw # enc[1].draw
          => /\ enc'[1].result.val[1] # enc[1].result.val[1]
             /\ enc'[1].result.val[2] # enc[1].result.val[2]
       /\ enc'[1].result = enc[1].result => enc'[1].draw = enc[1].draw

\* C16: each encapsulate call draws its message from the generator, and of two
\* calls with one public key, those whose draws differ return different
\* ciphertexts and different secrets; the outputs are the same only when the
\* draws are.
C16_Probabilistic == [][C16_Step]_vars

C16_Witness ==
    /\ enc # None /\ kp # None
    /\ enc[1].result.ok
    /\ enc[1].public_key = kp[1].val.public_key
    /\ ENABLED (\E m \in 1..NumRand :
                   /\ m # enc[1].draw
                   /\ Encapsulate(enc[1].public_key, m))

\* The path and the outcome of a request as its target, the algorithm name
\* and the fallback flag give them.
ExpectedPath(url, fallback) ==
    IF HasPrefix(url, "httq://") THEN "QuantumPath"
    ELSE IF HasPrefix(url, "https://") /\ fallback THEN "FallbackPath"
    ELSE "Rejected"

ExpectedBits(algorithm) ==
    IF algorithm = "HTTQ-LATTICE-1024" THEN "128"
    ELSE IF algorithm = "HTTQ-LATTICE-4096" THEN "256"
    ELSE "192"

ExpectedOutcome(url, algorithm, fallback) ==
    IF ExpectedPath(url, fallback) = "QuantumPath"
    THEN [ok |-> TRUE,
          val |-> [status |-> 200,
                   data |-> "{\"message\":\"Quantum-safe communication established!\","
                              \o "\"algorithm\":\"" \o algorithm \o "\","
                              \o "\"security_bits\":" \o ExpectedBits(algorithm) \o "}",
                   quantum_safe |-> TRUE]]
    ELSE IF ExpectedPath(url, fallback) = "FallbackPath"
    THEN [ok |-> TRUE,
          val |-> [status |-> 200,
                   data |-> "{\"message\":\"Regular HTTPS response\"}",
                   quantum_safe |-> FALSE]]
    ELSE [ok |-> FALSE, err |-> "Unsupported protocol in URL: " \o url]

\* The path a dispatched request is on or, once it is Done, the one its
\* outcome tells.
Route(t) ==
    IF tasks[t].pc # "Done" THEN tasks[t].pc
    ELSE IF ~tasks[t].result[1].ok THEN "Rejected"
    ELSE IF tasks[t].result[1].val.quantum_safe THEN "QuantumPath"
    ELSE "FallbackPath"

Dispatched(t) == tasks[t].pc \notin {"Idle", "Start"}

\* C17: hybrid_mode is kept in the client and nothing else: the path and the
\* outcome of every request are the ones its target, the algorithm name and
\* the fallback flag give, with hybrid_mode true as with hybrid_mode false.
C17_HybridModeNoEffect ==
    /\ client.hybrid_mode \in BOOLEAN
    /\ \A t \in Tasks :
          /\ Dispatched(t)
             => Route(t) = ExpectedPath(tasks[t].url, client.fallback_to_https)
          /\ tasks[t].pc = "Done"
             => tasks[t].result
                  = Some(ExpectedOutcome(tasks[t].url, client.algorithm,
                                         client.fallback_to_https))

C17_Witness ==
    \E t \in Tasks, u \in Tasks :
        /\ client.hybrid_mode
        /\ ~client.fallback_to_https
        /\ ReturnedResponse(t)
        /\ ReturnedError(u)
        /\ tasks[u].url = "https://a/b"

\* A step changes the request of one task at most, and never the client.
C18_Step ==
    /\ client' = client
    /\ \A t \in Tasks, u \in Tasks :
          (t # u /\ tasks'[t] # tasks[t]) => tasks'[u] = tasks[u]

\* Nothing of a request is left when it has returned, its key pairs end with
\* its handshake, its session is the one of its own encapsulation, and its
\* path and outcome are the ones of its own target and the configuration.
C18_Own ==
    \A t \in Tasks :
        /\ tasks[t].pc = "Idle" => tasks[t] = IdleTask
        /\ tasks[t].pc = "Done" => tasks[t].keypair = None /\ tasks[t].server_keypair = None
        /\ tasks[t].session # None
           => /\ Len(tasks[t].kem_log) = 3
              /\ \E m \in 1..NumRand :
                    tasks[t].session[1].shared_secret
                      = encapsulate(client.lattice, tasks[t].kem_log[3].arg, m).val[2]
        /\ Dispatched(t)
           => Route(t) = ExpectedPath(tasks[t].url, client.fallback_to_https)
        /\ tasks[t].pc = "Done"
           => Len(tasks[t].result) = 1
              /\ tasks[t].result[1].ok
                   = ExpectedOutcome(tasks[t].url, client.algorithm,
                                     client.fallback_to_https).ok

\* C18: no request changes the client or its primitive; no session or key pair
\* is left when the request that made it has returned; and with requests
\* interleaved, a step of one changes nothing of the other, and each has the
\* path and outcome of its own target, the configuration and its own draws.
C18_NoCrossRequestState ==
    /\ [][C18_Step]_vars
    /\ [](C18_Own)
    /\ [](client \in {ClientNew(a, h, f) : a \in AlgorithmNames, h \in BOOLEAN, f \in BOOLEAN})

C18_Witness ==
    \E t \in Tasks, u \in Tasks :
        /\ tasks[t].pc = "Done" /\ tasks[t].session # None
        /\ tasks[u].pc = "QuantumPath" /\ tasks[u].server_keypair # None
        /\ tasks[u].server_keypair[1].public_key # tasks[t].kem_log[3].arg
        /\ tasks[t].url # tasks[u].url

\* C19: the session, and the body of the response, name the algorithm by the
\* client's configured string as it is, not by the name the key pairs carry,
\* which is "HTTQ-LATTICE-" and the level; for a name outside the table the
\* session has that name and 192 bits while the key pairs of the handshake
\* are named "HTTQ-LATTICE-2048".
C19_SessionAlgorithmVerbatim ==
    \A t \in Tasks :
        /\ tasks[t].session # None
           => /\ tasks[t].session[1].algorithm = client.algorithm
              /\ client.algorithm \notin {"HTTQ-LATTICE-1024", "HTTQ-LATTICE-2048",
                                          "HTTQ-LATTICE-4096"}
                 => tasks[t].session[1].security_bits = 192
        /\ ReturnedResponse(t) /\ tasks[t].session # None
           => Contains(tasks[t].result[1].val.data,
                       "\"algorithm\":\"" \o client.algorithm \o "\",")
        /\ \A k \in {x \in {tasks[t].keypair, tasks[t].server_keypair} : x # None} :
              /\ k[1].algorithm = "HTTQ-LATTICE-" \o ToString(client.lattice.n)
              /\ client.algorithm \notin {"HTTQ-LATTICE-1024", "HTTQ-LATTICE-2048",
                                          "HTTQ-LATTICE-4096"}
                 => k[1].algorithm = "HTTQ-LATTICE-2048"

C19_Witness ==
    \E t \in Tasks, u \in Tasks :
        /\ client.algorithm = "httq-lattice-1024"
        /\ ReturnedResponse(t)
        /\ tasks[t].session # None
        /\ tasks[t].session[1].algorithm = "httq-lattice-1024"
        /\ tasks[t].session[1].security_bits = 192
        /\ tasks[u].keypair # None /\ tasks[u].server_keypair # None
        /\ tasks[u].keypair[1].algorithm = "HTTQ-LATTICE-2048"

\* C20: two requests of one client to one target take one path and have one
\* status, one quantum_safe flag and one error, whether made by get or by
\* post, with or without data; the path is the one the target's prefix and
\* the fallback flag give.
C20_MethodAndBodyNoEffect ==
    \A t \in Tasks, u \in Tasks :
        (Dispatched(t) /\ Dispatched(u) /\ tasks[t].url = tasks[u].url)
        => /\ Route(t) = Route(u)
           /\ Route(t) = ExpectedPath(tasks[t].url, client.fallback_to_https)
           /\ (tasks[t].pc = "Done" /\ tasks[u].pc = "Done")
              => /\ tasks[t].result[1].ok = tasks[u].result[1].ok
                 /\ tasks[t].result[1].ok
                    => /\ tasks[t].result[1].val.status = tasks[u].result[1].val.status
                       /\ tasks[t].result[1].val.quantum_safe
                            = tasks[u].result[1].val.quantum_safe
                 /\ ~tasks[t].result[1].ok
                    => tasks[t].result[1].err = tasks[u].result[1].err

C20_Witness ==
    \E t \in Tasks, u \in Tasks :
        /\ tasks[t].pc = "Done" /\ tasks[u].pc = "Done"
        /\ tasks[t].url = "https://a/b" /\ tasks[u].url = "https://a/b"
        /\ tasks[t].method = "GET"
        /\ tasks[u].method = "POST" /\ tasks[u].data # None
        /\ client.fallback_to_https

====
